---------------------------- MODULE Spec2Model ----------------------------
(***************************************************************************)
(* A model of resources/physics/physical_constants.py: the two formatting  *)
(* functions format_unit and format_uncertain_value that main() applies to *)
(* every record of the constants table.                                    *)
(*                                                                         *)
(* Input strings are sequences of one-character strings, so that the two   *)
(* regular expressions can be modelled by the scan they perform.  The      *)
(* markup that format_unit builds is a TLA+ string (built with \o, as the  *)
(* code builds it with +=); the result of format_uncertain_value is a      *)
(* sequence of characters, so that its layout can be inspected.            *)
(***************************************************************************)
EXTENDS Integers, Sequences, FiniteSets, TLC

VARIABLES
    pc,                 \* position of the running call
    unit_map,           \* the module-level symbol table (a mutable dict)
    unit_input,         \* argument of format_unit
    matches,            \* what is left of unit_regex.findall(unit_input)
    unit,               \* the local accumulator of format_unit
    value_input,        \* first argument of format_uncertain_value
    uncertainty_input,  \* second argument of format_uncertain_value
    val_parts,          \* groups of the value's full match
    unc_parts,          \* groups of the uncertainty's full match
    unc_digits,         \* the local unc_digits of format_uncertain_value
    result,             \* the returned value, NoResult until a return
    err                 \* the exception that left the call, NoError if none

vars == <<pc, unit_map, unit_input, matches, unit, value_input,
          uncertainty_input, val_parts, unc_parts, unc_digits, result, err>>

\* the arguments and locals of format_unit, and of format_uncertain_value
unitVars == <<unit_input, matches, unit>>
numVars ==
    <<value_input, uncertainty_input, val_parts, unc_parts, unc_digits>>

NoResult == [none |-> TRUE]
NoError == [type |-> "none", arg |-> <<>>]
NoParts == <<>>

(***************************************************************************)
(* Characters.                                                             *)
(***************************************************************************)
Letters ==
    {"a","b","c","d","e","f","g","h","i","j","k","l","m","n","o","p","q",
     "r","s","t","u","v","w","x","y","z","A","B","C","D","E","F","G","H",
     "I","J","K","L","M","N","O","P","Q","R","S","T","U","V","W","X","Y",
     "Z"}

Digits == {"0","1","2","3","4","5","6","7","8","9"}

IsLetter(c) == c \in Letters
IsDigit(c) == c \in Digits
\* \w of the re module, as far as ASCII goes
IsWord(c) == IsLetter(c) \/ IsDigit(c) \/ c = "_"

RECURSIVE Join(_)
\* ''.join(cs): the string spelled by a sequence of characters
Join(cs) == IF cs = <<>> THEN "" ELSE Head(cs) \o Join(Tail(cs))

RECURSIVE RunLen(_, _, _)
\* the length of the longest run of characters of class `cls` that starts
\* at s[i]
RunLen(s, i, cls) ==
    IF i > Len(s) \/ s[i] \notin cls THEN 0 ELSE 1 + RunLen(s, i + 1, cls)

Max(S) == CHOOSE x \in S : \A y \in S : y <= x

(***************************************************************************)
(* unit_map, lines 94-121.                                                 *)
(***************************************************************************)
UnitMapInit ==
    [b \in {"A","C","F","GeV","Hz","J","K","MHz","MeV","N","Pa","S","T","V",
            "W","Wb","c","eV","fm","kg","m","mol","ohm","s","sr","u"} |->
        CASE b = "A" -> "\\ampere"
          [] b = "C" -> "\\coulomb"
          [] b = "F" -> "\\farad"
          [] b = "GeV" -> "\\giga\\electronvolt"
          [] b = "Hz" -> "\\hertz"
          [] b = "J" -> "\\joule"
          [] b = "K" -> "\\kelvin"
          [] b = "MHz" -> "\\mega\\hertz"
          [] b = "MeV" -> "\\mega\\electronvolt"
          [] b = "N" -> "\\newton"
          [] b = "Pa" -> "\\pascal"
          [] b = "S" -> "\\siemens"
          [] b = "T" -> "\\tesla"
          [] b = "V" -> "\\volt"
          [] b = "W" -> "\\watt"
          [] b = "Wb" -> "\\weber"
          [] b = "c" -> "\\clight"
          [] b = "eV" -> "\\electronvolt"
          [] b = "fm" -> "\\femto\\meter"
          [] b = "kg" -> "\\kilogram"
          [] b = "m" -> "\\metre"
          [] b = "mol" -> "\\mole"
          [] b = "ohm" -> "\\ohm"
          [] b = "s" -> "\\second"
          [] b = "sr" -> "\\steradian"
          [] b = "u" -> "\\atomicmassunit"]

(***************************************************************************)
(* unit_regex = \b([a-zA-Z]+)(?:\^(-?)(\d+))?\b and its findall, line 122  *)
(* and line 128.  Positions are 1-based; a match that starts at s[i] and   *)
(* ends before s[e] is reported with end = e.                              *)
(***************************************************************************)
\* \b between s[i] and s[i+1] (i = 0: before the first character)
Boundary(s, i) ==
    LET before == i >= 1 /\ i <= Len(s) /\ IsWord(s[i])
        after == i + 1 >= 1 /\ i + 1 <= Len(s) /\ IsWord(s[i + 1])
    IN  before # after

\* (?:\^(-?)(\d+))\b tried at s[j] with the sign taken (sg = 1) or not
\* (sg = 0): the digit counts m for which the group and the final \b match
GroupLens(s, j, sg) ==
    IF j > Len(s) \/ s[j] # "^" THEN {}
    ELSE IF sg = 1 /\ (j + 1 > Len(s) \/ s[j + 1] # "-") THEN {}
    ELSE LET p == j + 1 + sg
         IN  {m \in 1..RunLen(s, p, Digits) : Boundary(s, p + m - 1)}

\* the match of unit_regex that starts at s[i], if there is one: the first
\* in the order a backtracking matcher tries them (longest base first, the
\* group before its absence, the sign before its absence, longest exponent
\* first)
MatchAt(s, i) ==
    LET L == RunLen(s, i, Letters)
        Tails(n) ==
            LET j == i + n
                g1 == GroupLens(s, j, 1)
                g0 == GroupLens(s, j, 0)
            IN  IF g1 # {}
                THEN [ok |-> TRUE, base |-> SubSeq(s, i, j - 1), sign |-> <<"-">>,
                      exp |-> SubSeq(s, j + 2, j + 1 + Max(g1)),
                      end |-> j + 2 + Max(g1)]
                ELSE IF g0 # {}
                THEN [ok |-> TRUE, base |-> SubSeq(s, i, j - 1), sign |-> <<>>,
                      exp |-> SubSeq(s, j + 1, j + Max(g0)),
                      end |-> j + 1 + Max(g0)]
                ELSE IF Boundary(s, j - 1)
                THEN [ok |-> TRUE, base |-> SubSeq(s, i, j - 1), sign |-> <<>>,
                      exp |-> <<>>, end |-> j]
                ELSE [ok |-> FALSE]
        good == {n \in 1..L : Tails(n).ok}
    IN  IF ~Boundary(s, i - 1) \/ good = {} THEN [ok |-> FALSE]
        ELSE Tails(Max(good))

RECURSIVE FindAllFrom(_, _)
\* the non-overlapping matches found scanning from s[i] on
FindAllFrom(s, i) ==
    IF i > Len(s) THEN <<>>
    ELSE LET m == MatchAt(s, i)
         IN  IF m.ok
             THEN <<[base |-> m.base, sign |-> m.sign, exp |-> m.exp]>>
                  \o FindAllFrom(s, m.end)
             ELSE FindAllFrom(s, i + 1)

\* unit_regex.findall(unit_input): a list of (base, sign, exp) triples
FindAll(s) == FindAllFrom(s, 1)

(***************************************************************************)
(* format_unit, lines 126-140.                                             *)
(***************************************************************************)
\* UnitPrefix with the branch of line 133 lost: a squared unit falls through
\* to the generic marker
UnitPrefixNoSquare(sign, exp) ==
    (IF sign # <<>> THEN "\\per" ELSE "")
    \o (IF exp = <<"1">> THEN ""
        ELSE IF exp = <<"3">> THEN "\\cube"
        ELSE IF exp # <<>> THEN "\\raiseto{" \o Join(exp) \o "}"
        ELSE "")

\* lines 129-138: what one triple appends before its base's markup
UnitPrefix(sign, exp) ==
    (IF sign # <<>> THEN "\\per" ELSE "")
    \o (IF exp = <<"1">> THEN ""
        ELSE IF exp = <<"2">> THEN "\\square"
        ELSE IF exp = <<"3">> THEN "\\cube"
        ELSE IF exp # <<>> THEN "\\raiseto{" \o Join(exp) \o "}"
        ELSE "")

\* unit_map[base] succeeds
KnownBase(base) == Join(base) \in DOMAIN unit_map

\* lines 127-128: the accumulator is emptied and findall runs to its end
\* before the loop's first iteration
FormatUnitEnter ==
    /\ pc = "format_unit"
    /\ unit' = ""
    /\ matches' = FindAll(unit_input)
    /\ pc' = "unit_loop"
    /\ UNCHANGED <<unit_map, unit_input, numVars, result, err>>

\* lines 128-139, one iteration whose lookup succeeds
FormatUnitAppend ==
    /\ pc = "unit_loop"
    /\ matches # <<>>
    /\ KnownBase(Head(matches).base)
    /\ unit' = unit \o UnitPrefix(Head(matches).sign, Head(matches).exp)
                    \o unit_map[Join(Head(matches).base)]
    /\ matches' = Tail(matches)
    /\ UNCHANGED <<pc, unit_map, unit_input, numVars, result, err>>

\* FormatUnitKeyError with the lookup replaced by unit_map.get(base, ''): an
\* unknown symbol is rendered with an empty markup and the loop goes on
FormatUnitDefault ==
    /\ pc = "unit_loop"
    /\ matches # <<>>
    /\ ~(Join(Head(matches).base) \in DOMAIN unit_map)
    /\ unit' = unit \o UnitPrefix(Head(matches).sign, Head(matches).exp)
    /\ matches' = Tail(matches)
    /\ UNCHANGED <<pc, unit_map, unit_input, numVars, result, err>>

\* lines 128-139, one iteration whose lookup raises KeyError(base): the
\* markers of lines 129-138 were appended to the local, nothing is returned
FormatUnitKeyError ==
    /\ pc = "unit_loop"
    /\ matches # <<>>
    /\ ~KnownBase(Head(matches).base)
    /\ unit' = unit \o UnitPrefix(Head(matches).sign, Head(matches).exp)
    /\ err' = [type |-> "KeyError", arg |-> Head(matches).base]
    /\ pc' = "raised"
    /\ UNCHANGED <<unit_map, unit_input, matches, numVars, result>>

\* line 140
FormatUnitReturn ==
    /\ pc = "unit_loop"
    /\ matches = <<>>
    /\ result' = unit
    /\ pc' = "returned"
    /\ UNCHANGED <<unit_map, unit_input, matches, unit, numVars, err>>

(***************************************************************************)
(* number_regex, line 123, and its fullmatch, lines 143-144: six groups, a  *)
(* sign [+-]?, digits \d+, a point \.?, digits \d* , a marker e? and an    *)
(* exponent [+-]?\d* .  Every quantifier is greedy and no group            *)
(* can take a character the next one could start with after a shorter      *)
(* choice has failed, so the groups of the full match are those of the     *)
(* left-to-right greedy scan, and there is a full match exactly when that  *)
(* scan ends at the end of the string.                                     *)
(***************************************************************************)
\* 1 when s[i] exists and is one of `cs`, else 0
OptLen(s, i, cs) == IF i <= Len(s) /\ s[i] \in cs THEN 1 ELSE 0

\* number_regex.fullmatch(s): ok is FALSE for None, else parts are the six
\* groups (parts[k] is the code's groups()[k - 1])
FullMatch(s) ==
    LET n1 == OptLen(s, 1, {"+", "-"})
        n2 == RunLen(s, 1 + n1, Digits)
        p3 == 1 + n1 + n2
        n3 == OptLen(s, p3, {"."})
        n4 == RunLen(s, p3 + n3, Digits)
        p5 == p3 + n3 + n4
        n5 == OptLen(s, p5, {"e"})
        n6 == OptLen(s, p5 + n5, {"+", "-"})
        n7 == RunLen(s, p5 + n5 + n6, Digits)
        end == p5 + n5 + n6 + n7
    IN  IF n2 >= 1 /\ end = Len(s) + 1
        THEN [ok |-> TRUE,
              parts |-> <<SubSeq(s, 1, n1), SubSeq(s, 1 + n1, p3 - 1),
                          SubSeq(s, p3, p3 + n3 - 1),
                          SubSeq(s, p3 + n3, p5 - 1),
                          SubSeq(s, p5, p5 + n5 - 1),
                          SubSeq(s, p5 + n5, Len(s))>>]
        ELSE [ok |-> FALSE, parts |-> NoParts]

(***************************************************************************)
(* int() as lines 146-148 use it.                                          *)
(***************************************************************************)
DigitValue(c) ==
    CASE c = "0" -> 0 [] c = "1" -> 1 [] c = "2" -> 2 [] c = "3" -> 3
      [] c = "4" -> 4 [] c = "5" -> 5 [] c = "6" -> 6 [] c = "7" -> 7
      [] c = "8" -> 8 [] c = "9" -> 9

DigitChar(d) == <<"0","1","2","3","4","5","6","7","8","9">>[d + 1]

\* IntIsNonZero with line 146 testing the string, `if unc_digits:`, instead
\* of its value
IntIsNonZeroOfString(ds) == ds # <<>>

\* int(ds) is not 0, for a non-empty run of digits ds (line 146)
IntIsNonZero(ds) == \E i \in 1..Len(ds) : ds[i] # "0"

\* int(cs) raises nothing: cs is an optional sign and at least one digit
IntParses(cs) ==
    LET n == OptLen(cs, 1, {"+", "-"})
    IN  Len(cs) > n /\ \A i \in (n + 1)..Len(cs) : IsDigit(cs[i])

RECURSIVE DigitsValue(_)
\* the number a run of digits spells
DigitsValue(ds) ==
    IF ds = <<>> THEN 0
    ELSE 10 * DigitsValue(SubSeq(ds, 1, Len(ds) - 1)) + DigitValue(ds[Len(ds)])

\* int(cs) for a signed run of digits
IntOf(cs) ==
    IF cs[1] = "-" THEN 0 - DigitsValue(Tail(cs))
    ELSE IF cs[1] = "+" THEN DigitsValue(Tail(cs))
    ELSE DigitsValue(cs)

\* int(parts[5]) if parts[5] else 0, lines 147-148
ExpOf(parts) == IF parts[6] # <<>> THEN IntOf(parts[6]) ELSE 0

(***************************************************************************)
(* Natural numbers of any size: sequences of decimal digits, least         *)
(* significant first, without high zeros (<<>> is 0).  They carry the      *)
(* integers of line 153, which need not fit a machine word.                *)
(***************************************************************************)
RECURSIVE Reverse(_)
Reverse(s) == IF s = <<>> THEN <<>> ELSE Reverse(Tail(s)) \o <<Head(s)>>

RECURSIVE NatTrim(_)
\* drop the high zeros
NatTrim(n) ==
    IF n # <<>> /\ n[Len(n)] = 0 THEN NatTrim(SubSeq(n, 1, Len(n) - 1)) ELSE n

\* the natural number a run of digit characters spells
NatOfDigits(ds) == NatTrim(Reverse([i \in 1..Len(ds) |-> DigitValue(ds[i])]))

\* str(n)
NatStr(n) ==
    IF n = <<>> THEN <<"0">>
    ELSE Reverse([i \in 1..Len(n) |-> DigitChar(n[i])])

\* 10^k
NatPow10(k) == [i \in 1..(k + 1) |-> IF i = k + 1 THEN 1 ELSE 0]

NatLess(a, b) ==
    \/ Len(a) < Len(b)
    \/ /\ Len(a) = Len(b)
       /\ \E i \in 1..Len(a) :
              /\ a[i] < b[i]
              /\ \A j \in (i + 1)..Len(a) : a[j] = b[j]

NatOdd(n) == n # <<>> /\ n[1] % 2 = 1

RECURSIVE NatDoubleCarry(_, _)
NatDoubleCarry(n, c) ==
    IF n = <<>> THEN (IF c = 0 THEN <<>> ELSE <<c>>)
    ELSE <<(2 * Head(n) + c) % 10>>
         \o NatDoubleCarry(Tail(n), (2 * Head(n) + c) \div 10)

\* 2 * n
NatDouble(n) == NatDoubleCarry(n, 0)

RECURSIVE NatInc(_)
\* n + 1
NatInc(n) ==
    IF n = <<>> THEN <<1>>
    ELSE IF Head(n) < 9 THEN <<Head(n) + 1>> \o Tail(n)
    ELSE <<0>> \o NatInc(Tail(n))

RECURSIVE NatHalfFrom(_, _, _)
\* the digits of floor(n / 2) below position i, given the remainder `rem`
\* carried down from the digits above
NatHalfFrom(n, i, rem) ==
    IF i = 0 THEN <<>>
    ELSE NatHalfFrom(n, i - 1, (10 * rem + n[i]) % 2)
         \o <<(10 * rem + n[i]) \div 2>>

\* floor(n / 2)
NatHalf(n) == NatTrim(NatHalfFrom(n, Len(n), 0))

RECURSIVE NatTimesPow2(_, _)
\* n * 2^e
NatTimesPow2(n, e) == IF e = 0 THEN n ELSE NatTimesPow2(NatDouble(n), e - 1)

(***************************************************************************)
(* ceil(float('<digits>e-<k>')) of line 153, for k > 0 and digits that are *)
(* not all zero.  float() gives the binary64 number nearest to             *)
(* q = N / 10^k (ties to the even significand), and ceil() the least       *)
(* integer not below that number.  With I = floor(q) and r = N mod 10^k,   *)
(* which are the digits of N before and after its last k digits:           *)
(*   - I = 0: q is in (0, 1), and so is float(q) or it is 1: the ceiling   *)
(*     is 1;                                                               *)
(*   - 0 < I < 2^52: the binary64 numbers from I to I + 1 are 2^-j apart,  *)
(*     where 2^52 <= I * 2^j < 2^53, and I is an even multiple of 2^-j, so *)
(*     float(q) = I exactly when r / 10^k <= 2^-(j+1), and otherwise it is *)
(*     above I and at most I + 1;                                          *)
(*   - I >= 2^52: float(q) is the integer (m + up) * 2^e, where            *)
(*     m = floor(I / 2^e) is in [2^52, 2^53) and `up` rounds on the bits   *)
(*     and the fraction dropped.                                           *)
(* The exponent range of binary64 is not modelled: q is taken to lie       *)
(* between 2^-1074 and 2^1024, as it does for inputs whose digit runs and  *)
(* exponents stay below three hundred digits.                              *)
(***************************************************************************)
Two52 == NatOfDigits(<<"4","5","0","3","5","9","9","6","2","7","3","7","0",
                       "4","9","6">>)
Two53 == NatDouble(Two52)

RECURSIVE RoundsDownTo(_, _, _)
\* for 0 < I < 2^52 and 0 < r < D: float(I + r / D) = I, given x = I * 2^t
\* and y = r * 2^(t + 1): whether y has not passed D when x reaches 2^52
RoundsDownTo(x, y, D) ==
    IF NatLess(D, y) THEN FALSE
    ELSE IF ~NatLess(x, Two52) THEN TRUE
    ELSE RoundsDownTo(NatDouble(x), NatDouble(y), D)

RECURSIVE RoundLarge(_, _, _, _)
\* for x >= 2^52: the nearest number of the form m * 2^e with m < 2^53 to
\* x * 2^e + (the part dropped so far), where `guard` says that the dropped
\* part is at least half a unit of x and `sticky` that it is not exactly
\* zero or half a unit
RoundLarge(x, e, guard, sticky) ==
    IF NatLess(x, Two53)
    THEN LET m == IF guard /\ (sticky \/ NatOdd(x)) THEN NatInc(x) ELSE x
         IN  NatTimesPow2(m, e)
    ELSE RoundLarge(NatHalf(x), e + 1, NatOdd(x), sticky \/ guard)

\* str(ceil(float('{}e{}'.format(digits, -k)))), line 153
CeilFloat(digits, k) ==
    LET L == Len(digits)
        I == IF L > k THEN NatOfDigits(SubSeq(digits, 1, L - k)) ELSE <<>>
        r == IF L > k THEN NatOfDigits(SubSeq(digits, L - k + 1, L))
             ELSE NatOfDigits(digits)
        D == NatPow10(k)
        twice == NatDouble(r)
    IN  NatStr(IF I = <<>> THEN <<1>>
               ELSE IF NatLess(I, Two52)
               THEN (IF r = <<>> \/ RoundsDownTo(I, twice, D) THEN I
                     ELSE NatInc(I))
               ELSE RoundLarge(I, 0, ~NatLess(twice, D),
                               r # <<>> /\ twice # D))


(***************************************************************************)
(* The unit expressions format_unit is applied to: up to MaxEntries        *)
(* entries, each a base symbol with an optional exponent, joined by single *)
(* spaces.                                                                 *)
(***************************************************************************)
MaxEntries == 2

UnitBases == {<<"m">>, <<"k", "g">>, <<"s">>, <<"x", "y", "z">>}
UnitExponents ==
    {<<>>, <<"^", "1">>, <<"^", "2">>, <<"^", "3">>, <<"^", "0", "1">>,
     <<"^", "1", "0">>, <<"^", "-", "1">>, <<"^", "-", "2">>}
UnitEntries == {b \o x : b \in UnitBases, x \in UnitExponents}

RECURSIVE UnitInputsOf(_)
\* the expressions of exactly n entries
UnitInputsOf(n) ==
    IF n = 0 THEN {<<>>}
    ELSE IF n = 1 THEN UnitEntries
    ELSE {u \o <<" ">> \o x : u \in UnitInputsOf(n - 1), x \in UnitEntries}

UnitInputs == UNION {UnitInputsOf(n) : n \in 0..MaxEntries}

InitUnit ==
    /\ pc = "format_unit"
    /\ unit_map = UnitMapInit
    /\ unit_input \in UnitInputs
    /\ matches = <<>>
    /\ unit = ""
    /\ value_input = <<>>
    /\ uncertainty_input = <<>>
    /\ val_parts = NoParts
    /\ unc_parts = NoParts
    /\ unc_digits = <<>>
    /\ result = NoResult
    /\ err = NoError

NextUnit ==
    \/ FormatUnitEnter
    \/ FormatUnitAppend
    \/ FormatUnitKeyError
    \/ FormatUnitReturn

SpecUnit == InitUnit /\ [][NextUnit]_vars

(***************************************************************************)
(* format_uncertain_value, lines 142-159.                                  *)
(***************************************************************************)
\* JoinedDigits with the integer digits left out of line 145
FractionalDigitsOnly(parts) == parts[4]

\* line 145: the uncertainty's integer and fractional digits, joined
JoinedDigits(parts) == parts[2] \o parts[4]

\* lines 147-148 raise nothing: each exponent group is empty or an integer
ExponentsParse(vparts, uparts) ==
    /\ vparts[6] # <<>> => IntParses(vparts[6])
    /\ uparts[6] # <<>> => IntParses(uparts[6])

\* ExpDiscrepancy with the two len() terms of lines 149-150 left out
ExpDiscrepancyOfExponents(vparts, uparts) == ExpOf(uparts) - ExpOf(vparts)

\* lines 149-150
ExpDiscrepancy(vparts, uparts) ==
    (ExpOf(uparts) - Len(uparts[4])) - (ExpOf(vparts) - Len(vparts[4]))

RECURSIVE Zeros(_)
\* '0' * n
Zeros(n) == IF n <= 0 THEN <<>> ELSE <<"0">> \o Zeros(n - 1)

\* RoundedDigits with line 153 cutting the string instead of rounding the
\* number: the excess digits are sliced off
SlicedDigits(digits, d) ==
    IF Len(digits) + d >= 1 THEN SubSeq(digits, 1, Len(digits) + d)
    ELSE <<"0">>

\* line 153, for d < 0
RoundedDigits(digits, d) == CeilFloat(digits, 0 - d)

\* line 156, for d >= 0
PaddedDigits(digits, d) == digits \o Zeros(d)

\* FormatResult with the format string of line 159 ending in ({6}): the
\* group is put after the exponent
FormatResultGroupLast(vparts, digits) ==
    vparts[1] \o vparts[2] \o vparts[3] \o vparts[4] \o vparts[5]
    \o vparts[6] \o <<"(">> \o digits \o <<")">>

\* line 159: '{0}{1}{2}{3}({6}){4}{5}'.format(*val_parts, unc_digits)
FormatResult(vparts, digits) ==
    vparts[1] \o vparts[2] \o vparts[3] \o vparts[4]
    \o <<"(">> \o digits \o <<")">> \o vparts[5] \o vparts[6]

\* line 143, the value matches
MatchValue ==
    /\ pc = "format_uncertain_value"
    /\ FullMatch(value_input).ok
    /\ val_parts' = FullMatch(value_input).parts
    /\ pc' = "match_uncertainty"
    /\ UNCHANGED <<unit_map, unitVars, value_input, uncertainty_input,
                   unc_parts, unc_digits, result, err>>

\* line 143, fullmatch returns None and .groups() raises AttributeError
MatchValueFails ==
    /\ pc = "format_uncertain_value"
    /\ ~FullMatch(value_input).ok
    /\ err' = [type |-> "AttributeError", arg |-> value_input]
    /\ pc' = "raised"
    /\ UNCHANGED <<unit_map, unitVars, numVars, result>>

\* line 144, the uncertainty matches
MatchUncertainty ==
    /\ pc = "match_uncertainty"
    /\ FullMatch(uncertainty_input).ok
    /\ unc_parts' = FullMatch(uncertainty_input).parts
    /\ pc' = "align"
    /\ UNCHANGED <<unit_map, unitVars, value_input, uncertainty_input,
                   val_parts, unc_digits, result, err>>

\* line 144, fullmatch returns None and .groups() raises AttributeError
MatchUncertaintyFails ==
    /\ pc = "match_uncertainty"
    /\ ~FullMatch(uncertainty_input).ok
    /\ err' = [type |-> "AttributeError", arg |-> uncertainty_input]
    /\ pc' = "raised"
    /\ UNCHANGED <<unit_map, unitVars, numVars, result>>

\* lines 145-146 and 157-158: the digits are all zero
ZeroUncertainty ==
    /\ pc = "align"
    /\ ~IntIsNonZero(JoinedDigits(unc_parts))
    /\ unc_digits' = <<"0">>
    /\ pc' = "format"
    /\ UNCHANGED <<unit_map, unitVars, value_input, uncertainty_input,
                   val_parts, unc_parts, result, err>>

\* lines 145-148: int() of an exponent group that is a bare sign raises
\* ValueError, the value's exponent being converted first
ExponentValueError ==
    /\ pc = "align"
    /\ IntIsNonZero(JoinedDigits(unc_parts))
    /\ ~ExponentsParse(val_parts, unc_parts)
    /\ unc_digits' = JoinedDigits(unc_parts)
    /\ err' = [type |-> "ValueError",
               arg |-> IF val_parts[6] # <<>> /\ ~IntParses(val_parts[6])
                       THEN val_parts[6] ELSE unc_parts[6]]
    /\ pc' = "raised"
    /\ UNCHANGED <<unit_map, unitVars, value_input, uncertainty_input,
                   val_parts, unc_parts, result>>

\* lines 145-153: the uncertainty is finer than the value and is rounded
RoundUp ==
    /\ pc = "align"
    /\ IntIsNonZero(JoinedDigits(unc_parts))
    /\ ExponentsParse(val_parts, unc_parts)
    /\ ExpDiscrepancy(val_parts, unc_parts) < 0
    /\ unc_digits' = RoundedDigits(JoinedDigits(unc_parts),
                                   ExpDiscrepancy(val_parts, unc_parts))
    /\ pc' = "format"
    /\ UNCHANGED <<unit_map, unitVars, value_input, uncertainty_input,
                   val_parts, unc_parts, result, err>>

\* lines 145-150 and 154-156: the uncertainty is padded with zeros
PadZeros ==
    /\ pc = "align"
    /\ IntIsNonZero(JoinedDigits(unc_parts))
    /\ ExponentsParse(val_parts, unc_parts)
    /\ ExpDiscrepancy(val_parts, unc_parts) >= 0
    /\ unc_digits' = PaddedDigits(JoinedDigits(unc_parts),
                                  ExpDiscrepancy(val_parts, unc_parts))
    /\ pc' = "format"
    /\ UNCHANGED <<unit_map, unitVars, value_input, uncertainty_input,
                   val_parts, unc_parts, result, err>>

\* line 159
FormatUncertainValueReturn ==
    /\ pc = "format"
    /\ result' = FormatResult(val_parts, unc_digits)
    /\ pc' = "returned"
    /\ UNCHANGED <<unit_map, unitVars, numVars, err>>

(***************************************************************************)
(* The strings format_uncertain_value is applied to.  Generated values are *)
(* an optional sign, an integer digit, an optional point with up to        *)
(* MaxValueFrac fractional digits and a suffix; generated uncertainties    *)
(* are up to MaxUncInt integer digits and an optional point with up to     *)
(* MaxUncFrac fractional digits, all drawn from UncDigitChars, and a       *)
(* suffix.  The suffixes cover an absent exponent, a marker alone, signed  *)
(* exponents, a sign without digits and an exponent without marker.  To    *)
(* these are added the strings the documentation works through, strings    *)
(* that are no decimal literal, and uncertainties of seventeen digits.     *)
(***************************************************************************)
MaxValueFrac == 2
MaxUncInt == 1
MaxUncFrac == 3

RECURSIVE Strings(_, _)
\* the strings of exactly n characters of cs
Strings(cs, n) ==
    IF n = 0 THEN {<<>>}
    ELSE {<<c>> \o t : c \in cs, t \in Strings(cs, n - 1)}

RECURSIVE Repeat(_, _)
\* the character c, n times
Repeat(c, n) == IF n = 0 THEN <<>> ELSE <<c>> \o Repeat(c, n - 1)

ValueSuffixes ==
    {<<>>, <<"e">>, <<"e", "2">>, <<"e", "-", "1">>, <<"e", "+">>,
     <<"+", "1">>}

UncSuffixes ==
    {<<>>, <<"e">>, <<"e", "1">>, <<"e", "-", "2">>, <<"e", "-">>,
     <<"+", "1">>}

UncDigitChars == {"0", "9"}

GeneratedValues ==
    {sg \o <<"7">> \o fr \o sf :
        sg \in {<<>>, <<"-">>},
        fr \in {<<>>} \cup {<<".">> \o Repeat("3", n) : n \in 0..MaxValueFrac},
        sf \in ValueSuffixes}

GeneratedUncertainties ==
    {int \o fr \o sf :
        int \in UNION {Strings(UncDigitChars, n) : n \in 1..MaxUncInt},
        fr \in {<<>>} \cup
               {<<".">> \o f :
                   f \in UNION {Strings(UncDigitChars, n) : n \in 0..MaxUncFrac}},
        sf \in UncSuffixes}

DocumentedValues ==
    {<<"1", ".", "2", "3", "4">>, <<"2", ".", "0">>, <<"5">>,
     <<"9", ".", "8", "1">>, <<"1", ".", "5", "0">>, <<"1", "e">>,
     <<"1", "e", "+">>, <<"1", "e", "-">>}

DocumentedUncertainties ==
    {<<"0", ".", "0", "0", "6">>, <<"0", ".", "0", "0", "3">>, <<"1", "2">>,
     <<"0">>, <<"0", ".", "0", "0", "0">>, <<"0", "e", "5">>,
     <<"2", "e", "-", "1">>, <<"-", "0", ".", "2", "5">>,
     <<"-", "0", ".", "0">>}

NotDecimalLiterals ==
    {<<>>, <<".", "5">>, <<"1", "x">>, <<"1", ".", "5", ".", "2">>,
     <<"1", "e", "5", "e">>, <<"-", "-", "1">>}

\* 1.0000000000000001 and 99999999999999990
SeventeenDigitUncertainties ==
    {<<"1", ".">> \o Repeat("0", 15) \o <<"1">>,
     Repeat("9", 16) \o <<"0">>}

ValueInputs == GeneratedValues \cup DocumentedValues \cup NotDecimalLiterals

UncertaintyInputs ==
    GeneratedUncertainties \cup DocumentedUncertainties
    \cup NotDecimalLiterals \cup SeventeenDigitUncertainties

Init ==
    /\ pc = "format_uncertain_value"
    /\ unit_map = UnitMapInit
    /\ unit_input = <<>>
    /\ matches = <<>>
    /\ unit = ""
    /\ value_input \in ValueInputs
    /\ uncertainty_input \in UncertaintyInputs
    /\ val_parts = NoParts
    /\ unc_parts = NoParts
    /\ unc_digits = <<>>
    /\ result = NoResult
    /\ err = NoError

Next ==
    \/ MatchValue
    \/ MatchValueFails
    \/ MatchUncertainty
    \/ MatchUncertaintyFails
    \/ ZeroUncertainty
    \/ ExponentValueError
    \/ RoundUp
    \/ PadZeros
    \/ FormatUncertainValueReturn

Spec == Init /\ [][Next]_vars


(***************************************************************************)
(* Unit expressions as the specification describes them: entries separated *)
(* by spaces, each <letters>, then optionally ^, an optional -, digits.    *)
(***************************************************************************)
RECURSIVE SplitSpaces(_)
\* the entries of an expression, in order
SplitSpaces(s) ==
    IF s = <<>> THEN <<>>
    ELSE LET n == CHOOSE k \in 0..Len(s) :
                      /\ \A i \in 1..k : s[i] # " "
                      /\ (k = Len(s) \/ s[k + 1] = " ")
         IN  IF n = Len(s) THEN <<s>>
             ELSE <<SubSeq(s, 1, n)>> \o SplitSpaces(SubSeq(s, n + 2, Len(s)))

EntryBase(e) == SubSeq(e, 1, RunLen(e, 1, Letters))
EntryHasExp(e) == Len(e) > Len(EntryBase(e))
EntryReciprocal(e) == EntryHasExp(e) /\ e[Len(EntryBase(e)) + 2] = "-"
EntryExp(e) ==
    IF ~EntryHasExp(e) THEN <<>>
    ELSE SubSeq(e, Len(EntryBase(e)) + (IF EntryReciprocal(e) THEN 3 ELSE 2),
                Len(e))
EntryKnown(e) == Join(EntryBase(e)) \in DOMAIN UnitMapInit

\* the rendering of one entry: reciprocal marker, power marker, markup
Rendering(e) ==
    (IF EntryReciprocal(e) THEN "\\per" ELSE "")
    \o (CASE EntryExp(e) \in {<<>>, <<"1">>} -> ""
          [] EntryExp(e) = <<"2">> -> "\\square"
          [] EntryExp(e) = <<"3">> -> "\\cube"
          [] OTHER -> "\\raiseto{" \o Join(EntryExp(e)) \o "}")
    \o UnitMapInit[Join(EntryBase(e))]

RECURSIVE Renderings(_)
\* the renderings of a sequence of entries, concatenated in order
Renderings(es) ==
    IF es = <<>> THEN "" ELSE Rendering(Head(es)) \o Renderings(Tail(es))

UnitEntriesOfInput == SplitSpaces(unit_input)
AllEntriesKnown ==
    \A i \in 1..Len(UnitEntriesOfInput) : EntryKnown(UnitEntriesOfInput[i])
UnknownEntries ==
    {i \in 1..Len(UnitEntriesOfInput) : ~EntryKnown(UnitEntriesOfInput[i])}

\* C1: for an expression all of whose base symbols are in the symbol table,
\* format_unit raises nothing and returns the renderings of its entries
\* concatenated in input order with no separator, an entry's rendering being
\* \per exactly when the - is there, then nothing for an exponent that is
\* absent or 1, \square for 2, \cube for 3, \raiseto{N} for any other N,
\* then the markup of the base; while the loop runs, the accumulator holds
\* the renderings of the entries already consumed, so no entry's rendering
\* depends on its neighbours.
C1_UnitRenderingIsPerEntry ==
    AllEntriesKnown =>
        /\ pc # "raised"
        /\ pc = "returned" => result = Renderings(UnitEntriesOfInput)
        /\ pc = "unit_loop" =>
               /\ Len(matches) <= Len(UnitEntriesOfInput)
               /\ unit = Renderings(SubSeq(UnitEntriesOfInput, 1,
                             Len(UnitEntriesOfInput) - Len(matches)))

\* a two-entry expression with a reciprocal squared unit has been rendered
C1_Witness ==
    /\ pc = "returned"
    /\ unit_input = <<"k", "g", " ", "m", "^", "-", "2">>
    /\ result = "\\kilogram\\per\\square\\metre"

\* C2: when some entry's base symbol is not in the symbol table, format_unit
\* returns no string (no partial rendering, no rendering with a substitute
\* markup), the only way it ends is a KeyError that names the leftmost
\* unknown symbol, and the symbol table is what it was.
C2_UnknownUnitRaises ==
    /\ unit_map = UnitMapInit
    /\ UnknownEntries # {} =>
        /\ pc # "returned"
        /\ result = NoResult
        /\ ~(pc = "unit_loop" /\ matches = <<>>)
        /\ pc = "raised" =>
               LET i == CHOOSE k \in UnknownEntries :
                            \A j \in UnknownEntries : k <= j
               IN  err = [type |-> "KeyError",
                          arg |-> EntryBase(UnitEntriesOfInput[i])]

\* an unknown symbol after a known one has raised, with the known one's
\* rendering left in the discarded accumulator
C2_Witness ==
    /\ pc = "raised"
    /\ unit_input = <<"m", "^", "2", " ", "x", "y", "z", "^", "-", "1">>
    /\ err.arg = <<"x", "y", "z">>
    /\ unit = "\\square\\metre\\per"
    /\ result = NoResult

(***************************************************************************)
(* format_uncertain_value as the specification describes it.               *)
(***************************************************************************)
\* a string is a decimal literal: it splits into an optional sign, a run
\* of at least one digit, an optional point, a run of digits, an optional
\* marker e and an optionally signed run of digits
IsDecimalLiteral(s) ==
    \E a \in 0..1 :
        /\ a <= Len(s)
        /\ a = 1 => s[1] \in {"+", "-"}
        /\ \E b \in (a + 1)..Len(s) :
            /\ \A i \in (a + 1)..b : IsDigit(s[i])
            /\ \E c \in {b, b + 1} :
                /\ c <= Len(s)
                /\ c = b + 1 => s[c] = "."
                /\ \E d \in c..Len(s) :
                    /\ \A i \in (c + 1)..d : IsDigit(s[i])
                    /\ \E e \in {d, d + 1} :
                        /\ e <= Len(s)
                        /\ e = d + 1 => s[e] = "e"
                        /\ \E f \in {e, e + 1} :
                            /\ f <= Len(s)
                            /\ f = e + 1 => s[f] \in {"+", "-"}
                            /\ \A i \in (f + 1)..Len(s) : IsDigit(s[i])

BothDecompose == FullMatch(value_input).ok /\ FullMatch(uncertainty_input).ok
ValueParts == FullMatch(value_input).parts
UncertaintyParts == FullMatch(uncertainty_input).parts

AllZeros(ds) == \A i \in 1..Len(ds) : ds[i] = "0"
AllNines(ds) == \A i \in 1..Len(ds) : ds[i] = "9"

\* the uncertainty's integer digits followed by its fractional digits
UncertaintyDigits == UncertaintyParts[2] \o UncertaintyParts[4]

\* the positions of the parentheses of the result
Opens == {i \in 1..Len(result) : result[i] = "("}
Closes == {i \in 1..Len(result) : result[i] = ")"}
OpenAt == CHOOSE i \in Opens : TRUE
CloseAt == CHOOSE i \in Closes : TRUE

\* the digits shown between the parentheses, and the result without them
Shown == SubSeq(result, OpenAt + 1, CloseAt - 1)
WithoutGroup ==
    SubSeq(result, 1, OpenAt - 1) \o SubSeq(result, CloseAt + 1, Len(result))

\* the value up to the end of its fractional digits
ValueMantissa ==
    ValueParts[1] \o ValueParts[2] \o ValueParts[3] \o ValueParts[4]

\* C3: a returned string holds exactly one group (digits), right after the
\* value's sign, integer digits, point and fractional digits and before its
\* exponent marker; without the group it is the value, character for
\* character, and decomposes into the parts the value decomposed into.
C3_ValueTextPreserved ==
    pc = "returned" =>
        /\ Cardinality(Opens) = 1 /\ Cardinality(Closes) = 1
        /\ OpenAt = Len(ValueMantissa) + 1
        /\ OpenAt + 1 < CloseAt
        /\ \A i \in (OpenAt + 1)..(CloseAt - 1) : IsDigit(result[i])
        /\ ValueParts[5] # <<>> => result[CloseAt + 1] = "e"
        /\ WithoutGroup = value_input
        /\ FullMatch(WithoutGroup).ok
        /\ FullMatch(WithoutGroup).parts = val_parts

\* a signed value with fractional digits and a signed exponent was formatted
\* with a padded uncertainty
C3_Witness ==
    /\ pc = "returned"
    /\ value_input = <<"-", "7", ".", "3", "3", "e", "-", "1">>
    /\ uncertainty_input = <<"9", ".", "0", "9">>
    /\ result = <<"-", "7", ".", "3", "3", "(", "9", "0", "9", "0", ")",
                  "e", "-", "1">>

\* C4: format_uncertain_value fails with the malformed-number error (here
\* the AttributeError of line 143 or 144) whenever the value or the
\* uncertainty is no decimal literal, and with nothing else: when both are,
\* it raises no error at all.
C4_OnlyMalformedNumbersFail ==
    /\ ~(IsDecimalLiteral(value_input) /\ IsDecimalLiteral(uncertainty_input))
           => /\ pc \in {"format_uncertain_value", "match_uncertainty", "raised"}
              /\ pc = "raised" => err.type = "AttributeError"
    /\ (IsDecimalLiteral(value_input) /\ IsDecimalLiteral(uncertainty_input))
           => pc # "raised"

\* C5: when the uncertainty's digits are all zero, whatever the signs and
\* the exponent suffixes, nothing is raised, the displayed uncertainty is the
\* single digit 0 and the result is the value with (0) put after its
\* fractional digits: 9.81 with 0, 0.000 or 0e5 gives 9.81(0).
C5_ZeroUncertaintyShowsZero ==
    (BothDecompose /\ AllZeros(UncertaintyDigits)) =>
        /\ pc # "raised"
        /\ pc = "format" => unc_digits = <<"0">>
        /\ pc = "returned" =>
               result = ValueMantissa \o <<"(", "0", ")">>
                        \o ValueParts[5] \o ValueParts[6]
        /\ (pc = "returned" /\ value_input = <<"9", ".", "8", "1">>) =>
               result = <<"9", ".", "8", "1", "(", "0", ")">>

\* a zero uncertainty of several digits, finer than the value and with an
\* exponent of its own, was displayed as 0
C5_Witness ==
    /\ pc = "returned"
    /\ value_input = <<"7", ".", "3", "e", "2">>
    /\ uncertainty_input = <<"0", ".", "0", "0", "0", "e", "-", "2">>
    /\ result = <<"7", ".", "3", "(", "0", ")", "e", "2">>

IsDocumentedCase(v, u) ==
    pc = "returned" /\ value_input = v /\ uncertainty_input = u

\* C6 as claimed: format_uncertain_value("1.234", "0.006") returns
\* 1.234(006), the three fractional digits and no digit of the integer part.
C6_Original ==
    IsDocumentedCase(<<"1", ".", "2", "3", "4">>, <<"0", ".", "0", "0", "6">>)
        => result = <<"1", ".", "2", "3", "4", "(", "0", "0", "6", ")">>

\* C6: format_uncertain_value("1.234", "0.006") returns 1.234(0006): the
\* discrepancy is 0, and the parenthetical shows the uncertainty's integer
\* digit 0 followed by its three fractional digits, not rounded, not padded.
C6_IntegerDigitIsShown ==
    IsDocumentedCase(<<"1", ".", "2", "3", "4">>, <<"0", ".", "0", "0", "6">>)
        => /\ ExpDiscrepancy(val_parts, unc_parts) = 0
           /\ Shown = <<"0">> \o <<"0", "0", "6">>
           /\ result = <<"1", ".", "2", "3", "4", "(", "0", "0", "0", "6", ")">>

C6_Witness ==
    /\ IsDocumentedCase(<<"1", ".", "2", "3", "4">>,
                        <<"0", ".", "0", "0", "6">>)
    /\ unc_digits = <<"0", "0", "0", "6">>

\* C7 as claimed: format_uncertain_value("2.0", "0.003") returns 2.0(003).
C7_Original ==
    IsDocumentedCase(<<"2", ".", "0">>, <<"0", ".", "0", "0", "3">>)
        => result = <<"2", ".", "0", "(", "0", "0", "3", ")">>

\* C7: format_uncertain_value("2.0", "0.003") returns 2.0(1): the value has
\* one fractional digit and the uncertainty three, the discrepancy is -2, and
\* the digits 0003 are rounded up to 1.
C7_FinerUncertaintyIsRounded ==
    IsDocumentedCase(<<"2", ".", "0">>, <<"0", ".", "0", "0", "3">>)
        => /\ ExpDiscrepancy(val_parts, unc_parts) = 0 - 2
           /\ result = <<"2", ".", "0", "(", "1", ")">>

C7_Witness ==
    /\ IsDocumentedCase(<<"2", ".", "0">>, <<"0", ".", "0", "0", "3">>)
    /\ unc_digits = <<"1">>

\* exp(x) as the specification states it: 0 without an exponent marker, the
\* parsed signed exponent with one
StatedExp(parts) == IF parts[5] = <<>> THEN 0 ELSE IntOf(parts[6])

\* the stated exponent is defined: a marker is followed by an integer
StatedExpDefined(parts) == parts[5] # <<>> => IntParses(parts[6])

StatedDiscrepancy ==
    (StatedExp(UncertaintyParts) - Len(UncertaintyParts[4]))
    - (StatedExp(ValueParts) - Len(ValueParts[4]))

\* C8: when both inputs decompose, the uncertainty's digits are not all zero
\* and the discrepancy d, with exp(x) = 0 for an x without exponent marker,
\* is >= 0, the parenthetical of the result shows the uncertainty's integer
\* digits, its fractional digits and then exactly d zeros.
C8_PaddingByStatedDiscrepancy ==
    (/\ pc = "returned"
     /\ BothDecompose
     /\ ~AllZeros(UncertaintyDigits)
     /\ StatedExpDefined(ValueParts) /\ StatedExpDefined(UncertaintyParts)
     /\ StatedDiscrepancy >= 0)
        => Shown = UncertaintyDigits \o Zeros(StatedDiscrepancy)

\* ceil(N / 10^k) computed on the digits: the digits before the last k,
\* plus one unless the last k are all zero
ExactCeiling(digits, k) ==
    LET L == Len(digits)
        I == IF L > k THEN NatOfDigits(SubSeq(digits, 1, L - k)) ELSE <<>>
        dropped == IF L > k THEN SubSeq(digits, L - k + 1, L) ELSE digits
    IN  IF AllZeros(dropped) THEN I ELSE NatInc(I)

\* the call has rounded: both inputs decomposed, the uncertainty is not
\* zero, the discrepancy is negative and the digits to display are chosen
HasRounded ==
    /\ pc \in {"format", "returned"}
    /\ IntIsNonZero(UncertaintyDigits)
    /\ ExpDiscrepancy(val_parts, unc_parts) < 0

\* C9: when the discrepancy d is < 0, the number shown is the ceiling of
\* unc_digits / 10^|d|, the least n with n * 10^|d| >= unc_digits; so it
\* is at least 1 and never below the true uncertainty.
C9_ShownIsCeiling ==
    HasRounded =>
        NatOfDigits(unc_digits)
            = ExactCeiling(UncertaintyDigits,
                           0 - ExpDiscrepancy(val_parts, unc_parts))

=============================================================================
